---- MODULE Spec2Model ----
(***************************************************************************)
(* Fixed-timestep simulation loop of src/main.cpp: monotonic clock, dt      *)
(* clamp, accumulator with a per-frame step cap, bounded command queue,     *)
(* command application, integration and presentation.                       *)
(*                                                                          *)
(* Numbers.  timeAccumulator and dtSeconds are C++ doubles whose rounding   *)
(* decides how many ticks a frame runs, so they are modelled bit-exactly:   *)
(* a double x with 0 <= x < 2 is the integer x * 2^62 (every value the      *)
(* scheduler can hold is such a multiple), kept in three limbs of 21 bits   *)
(* because TLC's integers are 32 bits wide, and every operation           *)
(* rounds its exact result to 53 significant bits, ties to even, as IEEE    *)
(* 754 binary64 does.  position and velocity are doubles too; they are      *)
(* modelled as scaled integers (velocity in units of 0.1, position in units *)
(* of 0.001, so that velocity * FIXED_DT_SECONDS is the same number of      *)
(* position units) extended with the IEEE special values +inf, -inf, NaN.   *)
(***************************************************************************)
EXTENDS Integers, Sequences, FiniteSets, TLC

\* ------------------------------------------------------------------------
\* Program constants (src/main.cpp:14-20, 115, 132, 143)
\* ------------------------------------------------------------------------
MAX_SIMULATION_STEPS_PER_FRAME == 5

MAX_COMMAND_QUEUE_SIZE == 32

MAX_COMMANDS_PER_STEP == 4

BURST_SIZE == 10

SLEEP_MS == 16

MS_PER_SECOND == 1000

\* ------------------------------------------------------------------------
\* IEEE 754 binary64 arithmetic on the scheduler's doubles
\* ------------------------------------------------------------------------
\* Significand width of a double.
MANTISSA_BITS == 53

\* A limb holds 21 bits; a value is <<top, middle, low>> = x * 2^62.
LimbBits == 21

LimbBase == 2 ^ LimbBits

\* The top limb starts at bit 42: a value needs rounding once it has more
\* than 53 bits, i.e. once its top limb has more than 53 - 42 = 11 bits.
TopLimbExactBits == MANTISSA_BITS - 2 * LimbBits

RECURSIVE BitLength(_)
BitLength(n) == IF n = 0 THEN 0 ELSE 1 + BitLength(n \div 2)

\* Carries (or borrows) propagated from the low limb upwards.
Carry(a2, a1, a0) ==
    LET c0 == a0 \div LimbBase
        t1 == a1 + c0
        c1 == t1 \div LimbBase
    IN  << a2 + c1, t1 % LimbBase, a0 % LimbBase >>

DZero == << 0, 0, 0 >>

\* x >= y on doubles.
DGe(x, y) ==
    \/ x[1] > y[1]
    \/ x[1] = y[1] /\ x[2] > y[2]
    \/ x[1] = y[1] /\ x[2] = y[2] /\ x[3] >= y[3]

DGt(x, y) == DGe(x, y) /\ x # y

DLt(x, y) == ~ DGe(x, y)

\* How a discarded fraction r/den (0 <= r < den) stands to one half.
FractionOf(r, den) ==
    IF r = 0 THEN "zero"
    ELSE IF 2 * r < den THEN "below"
    ELSE IF 2 * r = den THEN "half" ELSE "above"

\* Round the exact value n + f (n in limbs, f a fraction below 1 given by
\* FractionOf) to 53 significant bits, ties to even: the quantum is 2^s
\* where s is the number of bits n has beyond 53.
RoundNearestEven(n, f) ==
    LET s    == IF BitLength(n[1]) > TopLimbExactBits
                THEN BitLength(n[1]) - TopLimbExactBits ELSE 0
        q    == 2 ^ s
        rem  == n[3] % q
        low  == n[3] - rem
        odd  == (n[3] \div q) % 2 = 1
        up   == IF s = 0
                THEN f = "above" \/ (f = "half" /\ odd)
                ELSE \/ 2 * rem > q
                     \/ 2 * rem = q /\ (f # "zero" \/ odd)
    IN  IF up THEN Carry(n[1], n[2], low + q) ELSE << n[1], n[2], low >>

\* x + y, as the double addition computes it.
DAdd(x, y) ==
    RoundNearestEven(Carry(x[1] + y[1], x[2] + y[2], x[3] + y[3]), "zero")

\* Mutant of DSub: nothing is subtracted.
DSub_Omitted(x, y) == x

\* x - y for x >= y, as the double subtraction computes it.
DSub(x, y) ==
    RoundNearestEven(Carry(x[1] - y[1], x[2] - y[2], x[3] - y[3]), "zero")

\* The double nearest to num / den for small naturals (num < 2048,
\* den <= 1000): a decimal literal such as 0.01, or dtMs / 1000.0.
\* Long division of num * 2^62 by den, one limb at a time.
DoubleOfRatio(num, den) ==
    LET top == num * 2 ^ (62 - 2 * LimbBits)
        q2  == top \div den
        r2  == top % den
        q1  == (r2 * LimbBase) \div den
        r1  == (r2 * LimbBase) % den
        q0  == (r1 * LimbBase) \div den
        r0  == (r1 * LimbBase) % den
    IN  RoundNearestEven(<< q2, q1, q0 >>, FractionOf(r0, den))

\* Bit i (0 = lowest) of a value in limbs.
BitAt(x, i) == (x[3 - (i \div LimbBits)] \div (2 ^ (i % LimbBits))) % 2

\* 2 * v + bit on a value in limbs.
ShiftIn(v, bit) == Carry(2 * v[1], 2 * v[2], 2 * v[3] + bit)

\* v with bit w (0 = lowest, w < 63) set; the bit was clear.
WithBit(v, w) ==
    [v EXCEPT ![3 - (w \div LimbBits)] = @ + 2 ^ (w % LimbBits)]

\* Binary long division of x * 2^53 by y: the dividend bits i down to last
\* (bit i of x is bit i + 53 of the dividend; a negative i is one of the 53
\* zero bits appended), starting from remainder rem: the quotient bits these
\* steps produce, and the remainder left.
RECURSIVE DivLoop(_, _, _, _, _)
DivLoop(x, y, i, last, rem) ==
    IF i < last THEN [quot |-> DZero, rem |-> rem]
    ELSE LET r2 == ShiftIn(rem, IF i >= 0 THEN BitAt(x, i) ELSE 0)
         IN  IF DGe(r2, y)
             THEN LET d == DivLoop(x, y, i - 1, last,
                                   Carry(r2[1] - y[1], r2[2] - y[2],
                                         r2[3] - y[3]))
                  IN  [quot |-> WithBit(d.quot, i + MANTISSA_BITS),
                       rem |-> d.rem]
             ELSE DivLoop(x, y, i - 1, last, r2)

\* x / y as the double division computes it, for a quotient below 1024, in
\* units of 2^-53 (exact for quotients of 1/2 and more; a smaller quotient,
\* which a double holds more finely, is rounded to that unit).  The long
\* division runs in six stretches of 21 bits or fewer.
DDiv(x, y) ==
    LET d1    == DivLoop(x, y, 3 * LimbBits - 1, 2 * LimbBits, DZero)
        d2    == DivLoop(x, y, 2 * LimbBits - 1, LimbBits, d1.rem)
        d3    == DivLoop(x, y, LimbBits - 1, 0, d2.rem)
        d4    == DivLoop(x, y, -1, - LimbBits, d3.rem)
        d5    == DivLoop(x, y, - LimbBits - 1, - 2 * LimbBits, d4.rem)
        d6    == DivLoop(x, y, - 2 * LimbBits - 1, - MANTISSA_BITS, d5.rem)
        quot  == [j \in 1..3 |-> d1.quot[j] + d2.quot[j] + d3.quot[j]
                                 + d4.quot[j] + d5.quot[j] + d6.quot[j]]
        twice == ShiftIn(d6.rem, 0)
        f     == IF d6.rem = DZero THEN "zero"
                 ELSE IF twice = y THEN "half"
                 ELSE IF DGe(twice, y) THEN "above" ELSE "below"
    IN  RoundNearestEven(quot, f)

\* 1.0 in the unit of DDiv.
QuotientOne == << 2 ^ TopLimbExactBits, 0, 0 >>

MAX_DT_SECONDS == DoubleOfRatio(5, 100)

FIXED_DT_SECONDS == DoubleOfRatio(1, 100)

\* ------------------------------------------------------------------------
\* position and velocity: scaled integers with the IEEE special values
\* ------------------------------------------------------------------------
Fin(n) == [k |-> "fin", n |-> n]

PosInf == [k |-> "inf", n |-> 1]

NegInf == [k |-> "inf", n |-> -1]

NaN == [k |-> "nan", n |-> 0]

\* x + y on doubles: NaN propagates, inf + (-inf) is NaN.
FAdd(x, y) ==
    IF x.k = "nan" \/ y.k = "nan" THEN NaN
    ELSE IF x.k = "inf" /\ y.k = "inf" THEN (IF x.n = y.n THEN x ELSE NaN)
    ELSE IF x.k = "inf" THEN x
    ELSE IF y.k = "inf" THEN y
    ELSE Fin(x.n + y.n)

\* x < 0.0 on doubles: false for NaN.
FLtZero(x) == x.k # "nan" /\ x.n < 0

\* velocity * dtSeconds for the step the scheduler passes (FIXED_DT_SECONDS):
\* a velocity of n units (0.1 each) moves n position units (0.001 each);
\* inf * 0.01 is inf and NaN * 0.01 is NaN.
FMulDt(v, dtSecs) == IF dtSecs = FIXED_DT_SECONDS THEN v ELSE NaN

\* ------------------------------------------------------------------------
\* Presented values: the interpolator's products and sums, kept exact in
\* units of 2^-53 of a position (or velocity) unit, with the special values
\* ------------------------------------------------------------------------
\* The sign of a weight in limbs (the top limb carries it).
SignOf(w) == IF w[1] < 0 THEN -1 ELSE IF w = DZero THEN 0 ELSE 1

\* v * w for a state value v and a weight w: inf * 0 is NaN.
PMul(v, w) ==
    IF v.k = "nan" THEN NaN
    ELSE IF v.k = "inf"
         THEN (IF SignOf(w) = 0 THEN NaN
               ELSE [k |-> "inf", n |-> v.n * SignOf(w)])
         ELSE [k |-> "fin", n |-> Carry(v.n * w[1], v.n * w[2], v.n * w[3])]

\* x + y on presented values.
PAdd(x, y) ==
    IF x.k = "nan" \/ y.k = "nan" THEN NaN
    ELSE IF x.k = "inf" /\ y.k = "inf" THEN (IF x.n = y.n THEN x ELSE NaN)
    ELSE IF x.k = "inf" THEN x
    ELSE IF y.k = "inf" THEN y
    ELSE [k |-> "fin",
          n |-> Carry(x.n[1] + y.n[1], x.n[2] + y.n[2], x.n[3] + y.n[3])]

\* ------------------------------------------------------------------------
\* Data model (src/main.cpp:22-29, 45-49)
\* ------------------------------------------------------------------------
SystemState(p, v, ok) == [position |-> p, velocity |-> v, valid |-> ok]

Command(t, v) == [type |-> t, value |-> v]

\* Accelerate by n velocity units (n * 0.1).
Accelerate(n) == Command("Accelerate", Fin(n))

Stop == Command("Stop", Fin(0))

\* The command the main loop's input burst enqueues: Accelerate 0.1.
BurstCommand == Accelerate(1)

\* ------------------------------------------------------------------------
\* Bounds of the model
\* ------------------------------------------------------------------------
\* The clock is read up to this many milliseconds after program start.
MaxClockMs == 112

\* Calls of enqueueCommand made by a producer other than the main loop.
MaxExt == 2

\* Gaps between two clock samples (ms) the model draws from: none, below a
\* tick, exactly a tick, one pacing delay, three ticks, exactly the clamp,
\* beyond the clamp.
GapSet == {0, 6, 10, 16, 30, 50, 64}

\* Commands a producer may enqueue besides the main loop's burst: a stop and
\* a deceleration by 3.0.
ExtCommands == { Stop, Accelerate(-30) }

\* The same with extreme values: Command.value is any double, the
\* infinities included.
ExtremeCommands ==
    { Stop, Command("Accelerate", PosInf), Command("Accelerate", NegInf) }

\* The horizon (ms) of the runs that draw from ExtremeCommands.
ExtremeClockMs == 40

\* The horizon (ms) of the runs that record the history with a producer.
HistoryClockMs == 64

\* The gaps and the horizon (ms) of the runs of the program on its own.
PacedGaps == {0, 16, 50}

PacedClockMs == 200

\* updateSystem taken alone is tried on positions 0 .. MaxPosition (units of
\* 0.001) and velocities -MaxVelocity .. MaxVelocity (units of 0.1).
MaxPosition == 20

MaxVelocity == 50

\* What an uninitialized SystemState may hold (previousState before the
\* first tick): any bit pattern; three representatives.
Indeterminate ==
    { SystemState(Fin(0), Fin(0), FALSE), SystemState(Fin(7), Fin(-3), TRUE),
      SystemState(NaN, PosInf, TRUE) }

VARIABLES
    pc,               \* where the main loop stands: "sample", "ticks", "input"
    lastTickMs,       \* clock reading of the previous frame (ms since start)
    slept,            \* a frame has been presented and the loop has paced itself
    dtMs,             \* this frame's measured gap
    dtSeconds,        \* this frame's dt after the clamp (double)
    timeAccumulator,  \* owed simulation time (double)
    owed,             \* timeAccumulator right after this frame's dt was added
    stepsThisFrame,
    currentState,
    previousState,
    prevAssigned,     \* previousState has been written
    commandQueue,
    drained,          \* commands the most recent tick applied, in order
    burstIndex,       \* i of the input burst loop
    ret,              \* return value of the enqueueCommand call just made
    alpha,            \* interpolation factor of the frame last presented
    visualState,      \* state handed to the presentation layer in that frame
    extLeft,          \* producer calls still allowed by the bound
    acceptedLog,      \* logged runs: every command accepted so far, in order
    appliedLog,       \* logged runs: every command applied so far, in order
    ticksWaited,      \* logged runs: per queued command, ticks since accepted
    ticksRun,         \* ticks run since program start
    framesRun,        \* clock samples taken since program start
    fedTime,          \* exact sum of every dtSeconds added to the accumulator
    capResets         \* how often the step cap has reset the accumulator

vars ==
    << pc, lastTickMs, slept, dtMs, dtSeconds, timeAccumulator, owed,
       stepsThisFrame, currentState, previousState, prevAssigned,
       commandQueue, drained, burstIndex, ret, alpha, visualState, extLeft,
       acceptedLog, appliedLog, ticksWaited, ticksRun, framesRun, fedTime,
       capResets >>

\* ------------------------------------------------------------------------
\* Functions of the program
\* ------------------------------------------------------------------------
\* Mutant of updateSystem: the boundary rule leaves the velocity as it is.
updateSystem_VelocityKept(state, dtSecs) ==
    IF ~ state.valid THEN state
    ELSE LET p == FAdd(state.position, FMulDt(state.velocity, dtSecs))
         IN  IF FLtZero(p)
             THEN SystemState(Fin(0), state.velocity, FALSE)
             ELSE [state EXCEPT !.position = p]

\* Mutant of updateSystem: the boundary test includes 0.
updateSystem_BoundaryInclusive(state, dtSecs) ==
    IF ~ state.valid THEN state
    ELSE LET p == FAdd(state.position, FMulDt(state.velocity, dtSecs))
         IN  IF FLtZero(p) \/ p = Fin(0)
             THEN SystemState(Fin(0), Fin(0), FALSE)
             ELSE [state EXCEPT !.position = p]

updateSystem(state, dtSecs) ==
    IF ~ state.valid THEN state
    ELSE LET p == FAdd(state.position, FMulDt(state.velocity, dtSecs))
         IN  IF FLtZero(p)
             THEN SystemState(Fin(0), Fin(0), FALSE)
             ELSE [state EXCEPT !.position = p]



\* Mutant of applyCommand: the Stop case is missing.
applyCommand_StopIgnored(state, cmd) ==
    IF ~ state.valid THEN state
    ELSE IF cmd.type = "Accelerate"
         THEN [state EXCEPT !.velocity = FAdd(state.velocity, cmd.value)]
         ELSE state

\* Mutant of applyCommand: the validity guard is missing.
applyCommand_NoValidGuard(state, cmd) ==
    IF cmd.type = "Accelerate"
    THEN [state EXCEPT !.velocity = FAdd(state.velocity, cmd.value)]
    ELSE [state EXCEPT !.velocity = Fin(0)]

applyCommand(state, cmd) ==
    IF ~ state.valid THEN state
    ELSE IF cmd.type = "Accelerate"
         THEN [state EXCEPT !.velocity = FAdd(state.velocity, cmd.value)]
         ELSE [state EXCEPT !.velocity = Fin(0)]


\* Mutant of QueueFull: the capacity test off by one.
QueueFull_OffByOne(queue) == Len(queue) > MAX_COMMAND_QUEUE_SIZE

\* The queue is full: enqueueCommand rejects.
QueueFull(queue) == Len(queue) >= MAX_COMMAND_QUEUE_SIZE


\* Mutant of enqueueCommand: a full queue evicts its head to make room.
enqueueCommand_EvictOldest(queue, cmd) ==
    IF QueueFull(queue)
    THEN [queue |-> Append(Tail(queue), cmd), result |-> FALSE]
    ELSE [queue |-> Append(queue, cmd), result |-> TRUE]

\* Mutant of enqueueCommand: the command is pushed at the front.
enqueueCommand_PushFront(queue, cmd) ==
    IF QueueFull(queue)
    THEN [queue |-> queue, result |-> FALSE]
    ELSE [queue |-> << cmd >> \o queue, result |-> TRUE]

\* enqueueCommand: the queue afterwards and the value returned.
enqueueCommand(queue, cmd) ==
    IF QueueFull(queue)
    THEN [queue |-> queue, result |-> FALSE]
    ELSE [queue |-> Append(queue, cmd), result |-> TRUE]


\* Mutant of ClampDt: no clamp.
ClampDt_Missing(dt) == dt

\* The clamp of Layer 2.
ClampDt(dt) == IF DGt(dt, MAX_DT_SECONDS) THEN MAX_DT_SECONDS ELSE dt


\* Mutant of DrainMore: one command fewer per step.
DrainMore_OneFewer(queue, processed) ==
    queue # << >> /\ processed < MAX_COMMANDS_PER_STEP - 1

\* Mutant of DrainMore: the per-step limit off by one.
DrainMore_OffByOne(queue, processed) ==
    queue # << >> /\ processed <= MAX_COMMANDS_PER_STEP

\* The drain loop goes on.
DrainMore(queue, processed) == queue # << >> /\ processed < MAX_COMMANDS_PER_STEP

\* The drain loop of one tick: state, queue and the commands applied so far.
RECURSIVE DrainLoop(_, _, _)
DrainLoop(state, queue, applied) ==
    IF DrainMore(queue, Len(applied))
    THEN DrainLoop(applyCommand(state, Head(queue)), Tail(queue),
                   Append(applied, Head(queue)))
    ELSE [state |-> state, queue |-> queue, applied |-> applied]


\* Mutant of TickLoopCondition: a strict comparison with the tick length.
TickLoopCondition_Strict(acc, steps) ==
    DGt(acc, FIXED_DT_SECONDS) /\ steps < MAX_SIMULATION_STEPS_PER_FRAME

\* The tick loop goes on.
TickLoopCondition(acc, steps) ==
    DGe(acc, FIXED_DT_SECONDS) /\ steps < MAX_SIMULATION_STEPS_PER_FRAME

\* The accumulator after the step-cap check.
CapReset(acc, steps) ==
    IF steps = MAX_SIMULATION_STEPS_PER_FRAME THEN DZero ELSE acc

\* 1.0 - a for an interpolation factor a (exact on the 2^-53 grid).
OneMinus(a) ==
    Carry(QuotientOne[1] - a[1], QuotientOne[2] - a[2], QuotientOne[3] - a[3])

\* Mutant of interpolateState: out starts as a copy of prev instead of curr.
interpolateState_CopyOfPrev(prev, curr, a) ==
    [position |-> PAdd(PMul(prev.position, OneMinus(a)), PMul(curr.position, a)),
     velocity |-> PAdd(PMul(prev.velocity, OneMinus(a)), PMul(curr.velocity, a)),
     valid    |-> prev.valid]

interpolateState(prev, curr, a) ==
    [position |-> PAdd(PMul(prev.position, OneMinus(a)), PMul(curr.position, a)),
     velocity |-> PAdd(PMul(prev.velocity, OneMinus(a)), PMul(curr.velocity, a)),
     valid    |-> curr.valid]

\* ------------------------------------------------------------------------
\* The state machine
\* ------------------------------------------------------------------------
Init ==
    /\ pc = "sample"
    /\ lastTickMs = 0
    /\ slept = FALSE
    /\ dtMs = 0
    /\ dtSeconds = DZero
    /\ timeAccumulator = DZero
    /\ owed = DZero
    /\ stepsThisFrame = 0
    /\ currentState = SystemState(Fin(0), Fin(10), TRUE)
    /\ previousState \in Indeterminate
    /\ prevAssigned = FALSE
    /\ commandQueue = << >>
    /\ drained = << >>
    /\ burstIndex = 0
    /\ ret = << >>
    /\ alpha = DZero
    /\ visualState = interpolateState(currentState, currentState, DZero)
    /\ extLeft = MaxExt
    /\ acceptedLog = << >>
    /\ appliedLog = << >>
    /\ ticksWaited = << >>
    /\ ticksRun = 0
    /\ framesRun = 0
    /\ fedTime = DZero
    /\ capResets = 0

\* The history variables: what the logged runs record.
History == << acceptedLog, appliedLog, ticksWaited >>

\* Mutant of Sample: the snapshot is taken once per frame, at sampling time.
Sample_SnapshotPerFrame(gap) ==
    /\ pc = "sample"
    /\ gap >= (IF slept THEN SLEEP_MS ELSE 0)
    /\ LET now == lastTickMs + gap
           dt  == ClampDt(DoubleOfRatio(now - lastTickMs, MS_PER_SECOND))
       IN  /\ dtMs' = now - lastTickMs
           /\ lastTickMs' = now
           /\ dtSeconds' = dt
           /\ timeAccumulator' = DAdd(timeAccumulator, dt)
           /\ owed' = DAdd(timeAccumulator, dt)
           /\ fedTime' = Carry(fedTime[1] + dt[1], fedTime[2] + dt[2],
                               fedTime[3] + dt[3])
    /\ stepsThisFrame' = 0
    /\ framesRun' = framesRun + 1
    /\ pc' = "ticks"
    /\ ret' = << >>
    /\ previousState' = currentState
    /\ UNCHANGED << alpha, visualState, slept, currentState, prevAssigned,
                    commandQueue, drained, burstIndex, extLeft, ticksRun,
                    capResets, History >>

\* Layers 1 and 2: sample the clock, clamp, accumulate.  The steady clock
\* never goes back, and after the pacing delay at least SLEEP_MS have passed.
Sample(gap) ==
    /\ pc = "sample"
    /\ gap >= (IF slept THEN SLEEP_MS ELSE 0)
    /\ LET now == lastTickMs + gap
           dt  == ClampDt(DoubleOfRatio(now - lastTickMs, MS_PER_SECOND))
       IN  /\ dtMs' = now - lastTickMs
           /\ lastTickMs' = now
           /\ dtSeconds' = dt
           /\ timeAccumulator' = DAdd(timeAccumulator, dt)
           /\ owed' = DAdd(timeAccumulator, dt)
           /\ fedTime' = Carry(fedTime[1] + dt[1], fedTime[2] + dt[2],
                               fedTime[3] + dt[3])
    /\ stepsThisFrame' = 0
    /\ framesRun' = framesRun + 1
    /\ pc' = "ticks"
    /\ ret' = << >>
    /\ UNCHANGED << alpha, visualState, slept, currentState, previousState, prevAssigned,
                    commandQueue, drained, burstIndex, extLeft, ticksRun,
                    capResets, History >>

\* Layer 3: one pass of the tick loop, the history variables aside.
TickBody ==
    /\ pc = "ticks"
    /\ TickLoopCondition(timeAccumulator, stepsThisFrame)
    /\ LET d == DrainLoop(currentState, commandQueue, << >>)
       IN  /\ previousState' = currentState
           /\ currentState' = updateSystem(d.state, FIXED_DT_SECONDS)
           /\ commandQueue' = d.queue
           /\ drained' = d.applied
    /\ prevAssigned' = TRUE
    /\ timeAccumulator' = DSub(timeAccumulator, FIXED_DT_SECONDS)
    /\ stepsThisFrame' = stepsThisFrame + 1
    /\ ticksRun' = ticksRun + 1
    /\ ret' = << >>
    /\ UNCHANGED << alpha, visualState, pc, lastTickMs, slept, dtMs, dtSeconds,
                    owed, burstIndex, extLeft, framesRun, fedTime, capResets >>

\* Mutant of Tick: the snapshot is taken after the command drain.
Tick_SnapshotAfterDrain ==
    /\ pc = "ticks"
    /\ TickLoopCondition(timeAccumulator, stepsThisFrame)
    /\ LET d == DrainLoop(currentState, commandQueue, << >>)
       IN  /\ previousState' = d.state
           /\ currentState' = updateSystem(d.state, FIXED_DT_SECONDS)
           /\ commandQueue' = d.queue
           /\ drained' = d.applied
    /\ prevAssigned' = TRUE
    /\ timeAccumulator' = DSub(timeAccumulator, FIXED_DT_SECONDS)
    /\ stepsThisFrame' = stepsThisFrame + 1
    /\ ticksRun' = ticksRun + 1
    /\ ret' = << >>
    /\ UNCHANGED << alpha, visualState, pc, lastTickMs, slept, dtMs, dtSeconds,
                    owed, burstIndex, extLeft, framesRun, fedTime, capResets >>
    /\ UNCHANGED History

\* Layer 3: one pass of the tick loop.
Tick == TickBody /\ UNCHANGED History

\* The same pass with its history recorded: the commands it applied, and one
\* more tick waited by each command it left queued.
TickLogged ==
    /\ TickBody
    /\ appliedLog' = appliedLog \o drained'
    /\ ticksWaited' =
         [i \in 1..(Len(ticksWaited) - Len(drained')) |->
            ticksWaited[i + Len(drained')] + 1]
    /\ UNCHANGED acceptedLog

\* The tick loop ends; the step cap discards what is left when it was hit.
EndTicks ==
    /\ pc = "ticks"
    /\ ~ TickLoopCondition(timeAccumulator, stepsThisFrame)
    /\ timeAccumulator' = CapReset(timeAccumulator, stepsThisFrame)
    /\ capResets' = IF stepsThisFrame = MAX_SIMULATION_STEPS_PER_FRAME
                    THEN capResets + 1 ELSE capResets
    /\ pc' = "input"
    /\ burstIndex' = 0
    /\ ret' = << >>
    /\ UNCHANGED << alpha, visualState, lastTickMs, slept, dtMs, dtSeconds, owed,
                    stepsThisFrame, currentState, previousState, prevAssigned,
                    commandQueue, drained, extLeft, ticksRun, framesRun,
                    fedTime, History >>

\* One call of the input burst, the history variables aside.
BurstEnqueueBody ==
    /\ pc = "input"
    /\ burstIndex < BURST_SIZE
    /\ LET r == enqueueCommand(commandQueue, BurstCommand)
       IN  /\ commandQueue' = r.queue
           /\ ret' = << r.result >>
    /\ burstIndex' = burstIndex + 1
    /\ UNCHANGED << alpha, visualState, pc, lastTickMs, slept, dtMs, dtSeconds,
                    timeAccumulator, owed, stepsThisFrame, currentState,
                    previousState, prevAssigned, drained, extLeft, ticksRun,
                    framesRun, fedTime, capResets >>

\* One call of the input burst.
BurstEnqueue == BurstEnqueueBody /\ UNCHANGED History

\* The history of a call: an accepted command is recorded, having waited
\* no tick yet.
LogCall(cmd) ==
    /\ acceptedLog' = IF ret' = << TRUE >>
                      THEN Append(acceptedLog, cmd) ELSE acceptedLog
    /\ ticksWaited' = IF ret' = << TRUE >>
                      THEN Append(ticksWaited, 0) ELSE ticksWaited
    /\ UNCHANGED appliedLog

BurstEnqueueLogged == BurstEnqueueBody /\ LogCall(BurstCommand)

\* Layer 4 and the pacing delay.
Present ==
    /\ pc = "input"
    /\ burstIndex = BURST_SIZE
    /\ alpha' = DDiv(timeAccumulator, FIXED_DT_SECONDS)
    /\ visualState' = interpolateState(previousState, currentState, alpha')
    /\ pc' = "sample"
    /\ slept' = TRUE
    /\ ret' = << >>
    /\ UNCHANGED << lastTickMs, dtMs, dtSeconds, timeAccumulator, owed,
                    stepsThisFrame, currentState, previousState, prevAssigned,
                    commandQueue, drained, burstIndex, extLeft, ticksRun,
                    framesRun, fedTime, capResets, History >>

\* A producer calls enqueueCommand: between two frames, or after a pass of
\* the tick loop (a call before a frame's first pass meets the same queue as
\* one between the frames; the burst loop makes its calls back to back).
ExtEnqueueBody(cmd) ==
    /\ pc = "sample" \/ (pc = "ticks" /\ stepsThisFrame > 0)
    /\ extLeft > 0
    /\ LET r == enqueueCommand(commandQueue, cmd)
       IN  /\ commandQueue' = r.queue
           /\ ret' = << r.result >>
    /\ extLeft' = extLeft - 1
    /\ UNCHANGED << alpha, visualState, pc, lastTickMs, slept, dtMs, dtSeconds,
                    timeAccumulator, owed, stepsThisFrame, currentState,
                    previousState, prevAssigned, drained, burstIndex, ticksRun,
                    framesRun, fedTime, capResets >>

ExtEnqueue(cmd) == ExtEnqueueBody(cmd) /\ UNCHANGED History

ExtEnqueueLogged(cmd) == ExtEnqueueBody(cmd) /\ LogCall(cmd)

Next ==
    \/ \E gap \in GapSet : lastTickMs + gap <= MaxClockMs /\ Sample(gap)
    \/ Tick
    \/ EndTicks
    \/ BurstEnqueue
    \/ Present
    \/ \E cmd \in ExtCommands : ExtEnqueue(cmd)

Spec == Init /\ [][Next]_vars

\* The same program with a producer that sends extreme values, over a
\* shorter horizon.
NextExtreme ==
    \/ \E gap \in GapSet : lastTickMs + gap <= ExtremeClockMs /\ Sample(gap)
    \/ Tick
    \/ EndTicks
    \/ BurstEnqueue
    \/ Present
    \/ \E cmd \in ExtremeCommands : ExtEnqueue(cmd)

SpecExtreme == Init /\ [][NextExtreme]_vars

\* The same program with its history recorded, over a shorter horizon.
NextHistory ==
    \/ \E gap \in GapSet : lastTickMs + gap <= HistoryClockMs /\ Sample(gap)
    \/ TickLogged
    \/ EndTicks
    \/ BurstEnqueueLogged
    \/ Present
    \/ \E cmd \in ExtCommands : ExtEnqueueLogged(cmd)

SpecHistory == Init /\ [][NextHistory]_vars

\* The program on its own, its history recorded, over a longer horizon: no
\* producer besides the burst, and frames that follow the pacing delay at
\* once or after a stall.
NextPaced ==
    \/ \E gap \in PacedGaps : lastTickMs + gap <= PacedClockMs /\ Sample(gap)
    \/ TickLogged
    \/ EndTicks
    \/ BurstEnqueueLogged
    \/ Present

SpecPaced == Init /\ [][NextPaced]_vars

\* updateSystem on its own: one call with the scheduler's step on a state
\* drawn from bounded positions and velocities, valid or not.
UpdateInputs ==
    { SystemState(Fin(p), Fin(v), ok) :
        p \in 0..MaxPosition, v \in (- MaxVelocity)..MaxVelocity, ok \in BOOLEAN }

InitUpdate ==
    /\ pc = "update"
    /\ lastTickMs = 0
    /\ slept = FALSE
    /\ dtMs = 0
    /\ dtSeconds = DZero
    /\ timeAccumulator = DZero
    /\ owed = DZero
    /\ stepsThisFrame = 0
    /\ currentState \in UpdateInputs
    /\ previousState = currentState
    /\ prevAssigned = FALSE
    /\ commandQueue = << >>
    /\ drained = << >>
    /\ burstIndex = 0
    /\ ret = << >>
    /\ alpha = DZero
    /\ visualState = interpolateState(currentState, currentState, DZero)
    /\ extLeft = 0
    /\ acceptedLog = << >>
    /\ appliedLog = << >>
    /\ ticksWaited = << >>
    /\ ticksRun = 0
    /\ framesRun = 0
    /\ fedTime = DZero
    /\ capResets = 0

\* The call; previousState keeps the argument.
UpdateStep ==
    /\ pc = "update"
    /\ previousState' = currentState
    /\ currentState' = updateSystem(currentState, FIXED_DT_SECONDS)
    /\ pc' = "updated"
    /\ UNCHANGED << lastTickMs, slept, dtMs, dtSeconds, timeAccumulator, owed,
                    stepsThisFrame, prevAssigned, commandQueue, drained,
                    burstIndex, ret, alpha, visualState, extLeft, ticksRun,
                    framesRun, fedTime, capResets, History >>

NextUpdate == UpdateStep

SpecUpdate == InitUpdate /\ [][NextUpdate]_vars

\* ------------------------------------------------------------------------
\* Claims
\* ------------------------------------------------------------------------

\* C1: in every reachable state, after any interleaving of enqueueCommand
\* calls and ticks, the command queue holds at most MAX_COMMAND_QUEUE_SIZE
\* (32) commands.
C1_QueueBound == Len(commandQueue) <= MAX_COMMAND_QUEUE_SIZE

\* C1 witness: the queue holds 32 commands and the burst's call was refused.
C1_Witness ==
    /\ Len(commandQueue) = MAX_COMMAND_QUEUE_SIZE
    /\ pc = "input" /\ burstIndex > 0
    /\ ret = << FALSE >>

\* C2: a call of enqueueCommand made while the queue holds 32 commands
\* returns false and leaves the queue exactly as it was: the new command is
\* dropped and no queued command is evicted.  (ret' is non-empty exactly in
\* the steps that are a call.)
C2_FullQueueRejects ==
    [][ (ret' # << >> /\ Len(commandQueue) >= MAX_COMMAND_QUEUE_SIZE)
          => (ret' = << FALSE >> /\ commandQueue' = commandQueue) ]_vars

\* C2 witness: a producer's call met a full queue holding one of the
\* producer's earlier commands, and was refused.
C2_Witness ==
    /\ pc # "input" /\ ret = << FALSE >>
    /\ Len(commandQueue) = MAX_COMMAND_QUEUE_SIZE
    /\ \E i \in 1..Len(commandQueue) : commandQueue[i] # BurstCommand

\* C3: once currentState.valid is false, no step changes position, velocity
\* or valid, whatever commands the ticks drain.
C3_InvalidIsTerminal ==
    [][ ~ currentState.valid => currentState' = currentState ]_vars

\* C3 witness: a tick has drained commands, an Accelerate among them, into a
\* state that was already invalid.
C3_Witness ==
    /\ ~ currentState.valid
    /\ prevAssigned /\ ~ previousState.valid
    /\ \E i \in 1..Len(drained) : drained[i].type = "Accelerate"

\* x >= 0.0 on doubles: false for NaN.
FGeZero(x) == x.k # "nan" /\ x.n >= 0

\* C4 (the claim as stated): at every tick boundary, for any sequence of
\* Accelerate and Stop commands, currentState.valid implies
\* currentState.position >= 0.
C4_ValidImpliesNonNegative ==
    currentState.valid => FGeZero(currentState.position)

\* The whole ticks an amount of time holds: how often FIXED_DT_SECONDS can be
\* taken from it, in exact arithmetic.
RECURSIVE WholeTicks(_)
WholeTicks(x) ==
    IF DGe(x, FIXED_DT_SECONDS)
    THEN 1 + WholeTicks(Carry(x[1] - FIXED_DT_SECONDS[1],
                              x[2] - FIXED_DT_SECONDS[2],
                              x[3] - FIXED_DT_SECONDS[3]))
    ELSE 0

\* C5 (the claim as stated): no frame runs more than 5 ticks, and a frame
\* whose owed time (accumulator plus clamped dt) holds 5 or more ticks runs
\* exactly 5 and ends its scheduling step with the accumulator at 0.
C5_StepCap ==
    /\ stepsThisFrame <= MAX_SIMULATION_STEPS_PER_FRAME
    /\ (pc = "input" /\ WholeTicks(owed) >= MAX_SIMULATION_STEPS_PER_FRAME)
         => /\ stepsThisFrame = MAX_SIMULATION_STEPS_PER_FRAME
            /\ timeAccumulator = DZero

\* C6: after the scheduling step of a frame that ran fewer than 5 ticks,
\* 0 <= accumulator < FIXED_DT_SECONDS, and the interpolation factor that
\* frame presents, accumulator / FIXED_DT_SECONDS, lies in [0, 1).
C6_AccumulatorBelowTick ==
    /\ (pc = "input" /\ stepsThisFrame < MAX_SIMULATION_STEPS_PER_FRAME)
         => /\ DGe(timeAccumulator, DZero)
            /\ DLt(timeAccumulator, FIXED_DT_SECONDS)
    /\ (pc = "sample" /\ slept
        /\ stepsThisFrame < MAX_SIMULATION_STEPS_PER_FRAME)
         => /\ alpha = DDiv(timeAccumulator, FIXED_DT_SECONDS)
            /\ DGe(alpha, DZero)
            /\ DLt(alpha, QuotientOne)

\* C6 witness: a frame that owed five ticks ran four and has been presented
\* with the accumulator a rounding error below a tick (factor above 1/2).
C6_Witness ==
    /\ pc = "sample" /\ slept /\ stepsThisFrame = 4
    /\ WholeTicks(owed) = 5
    /\ DLt(timeAccumulator, FIXED_DT_SECONDS)
    /\ DGe(ShiftIn(alpha, 0), QuotientOne)

\* C7: the dt a frame adds to the accumulator satisfies
\* 0 <= dt <= MAX_DT_SECONDS whatever the gap between the two clock
\* samples; a gap above 50 ms adds exactly MAX_DT_SECONDS (and a gap up to
\* 50 ms adds the gap).
C7_DtClamped ==
    [][ (pc = "sample" /\ pc' = "ticks")
          => /\ dtMs' >= 0
             /\ DGe(dtSeconds', DZero)
             /\ DGe(MAX_DT_SECONDS, dtSeconds')
             /\ dtMs' > 50 => dtSeconds' = MAX_DT_SECONDS
             /\ dtMs' <= 50 => dtSeconds' = DoubleOfRatio(dtMs', 1000)
             /\ timeAccumulator' = DAdd(timeAccumulator, dtSeconds') ]_vars

\* C7 witness: a gap above 50 ms was sampled and MAX_DT_SECONDS added to an
\* accumulator that was not empty.
C7_Witness ==
    /\ pc = "ticks" /\ stepsThisFrame = 0
    /\ dtMs > 50 /\ dtSeconds = MAX_DT_SECONDS
    /\ DGt(timeAccumulator, MAX_DT_SECONDS)

\* The commands cmds applied to state from the first to the last.
RECURSIVE C9_ApplyFirstToLast(_, _, _)
C9_ApplyFirstToLast(state, cmds, i) ==
    IF i > Len(cmds) THEN state
    ELSE C9_ApplyFirstToLast(applyCommand(state, cmds[i]), cmds, i + 1)

\* C9: each tick removes exactly min(4, queue size) commands from the head
\* of the queue, applies them in head-to-tail order and then integrates;
\* the commands left keep their order.
C9_TickDrainsHead ==
    [][ stepsThisFrame' = stepsThisFrame + 1
          => LET k == IF Len(commandQueue) < 4 THEN Len(commandQueue) ELSE 4
             IN  /\ Len(commandQueue') = Len(commandQueue) - k
                 /\ drained' = SubSeq(commandQueue, 1, k)
                 /\ commandQueue' = SubSeq(commandQueue, k + 1, Len(commandQueue))
                 /\ currentState' =
                      updateSystem(C9_ApplyFirstToLast(currentState, drained', 1),
                                   FIXED_DT_SECONDS) ]_vars

\* C9 witness: a tick has just run on a full queue of 32 (calls had been
\* refused) and left 28 queued, a producer's command among them.
C9_Witness ==
    /\ pc = "ticks" /\ stepsThisFrame >= 1 /\ ret = << >>
    /\ Len(drained) = 4
    /\ Len(commandQueue) = 28
    /\ \E i \in 1..Len(commandQueue) : commandQueue[i] # BurstCommand

\* C10: a tick that starts with a valid state and whose last drained command
\* is Stop integrates with velocity 0 whatever Accelerate commands it
\* drained before: it leaves position unchanged and velocity 0.
C10_StopOverrides ==
    [][ ( /\ stepsThisFrame' = stepsThisFrame + 1
          /\ currentState.valid
          /\ drained' # << >>
          /\ drained'[Len(drained')].type = "Stop" )
          => /\ currentState'.velocity = Fin(0)
             /\ currentState'.position = currentState.position
             /\ currentState'.valid ]_vars

\* C10 witness: a tick has just drained an Accelerate and then, last, a Stop
\* into a valid moving state.
C10_Witness ==
    /\ pc = "ticks" /\ stepsThisFrame >= 1 /\ ret = << >>
    /\ Len(drained) >= 2
    /\ drained[Len(drained)].type = "Stop"
    /\ drained[Len(drained) - 1].type = "Accelerate"
    /\ previousState.valid /\ previousState.velocity # Fin(0)
    /\ currentState = [previousState EXCEPT !.velocity = Fin(0)]

\* The presented value 0.
C11_PresentedZero == [k |-> "fin", n |-> DZero]

\* C11 (the claim as stated): once currentState.valid is false, every
\* frame presented from then on reports valid = false, and its interpolated
\* position and velocity are those of the frame presented before it.
C11_FlatOnceInvalid ==
    [][ (pc = "input" /\ pc' = "sample")
          => /\ ~ currentState.valid => ~ visualState'.valid
             /\ ~ visualState.valid => visualState' = visualState ]_vars

\* C11 (amended): once currentState.valid is false, every frame presented
\* from then on reports valid = false; the first of them may still blend the
\* last valid snapshot, and every frame after it presents position 0 and
\* velocity 0, whatever the later gaps.
C11_FlatAfterFirstInvalidFrame ==
    [][ (pc = "input" /\ pc' = "sample")
          => /\ ~ currentState.valid => ~ visualState'.valid
             /\ ~ visualState.valid
                  => /\ ~ visualState'.valid
                     /\ visualState'.position = C11_PresentedZero
                     /\ visualState'.velocity = C11_PresentedZero ]_vars

\* C11 witness: a frame whose only tick started from an invalid state (so
\* an earlier frame was already presented invalid) has been presented
\* between two ticks, as 0, 0, invalid.
C11_Witness ==
    /\ pc = "sample" /\ slept /\ stepsThisFrame = 1
    /\ ~ previousState.valid /\ ~ currentState.valid
    /\ DGt(alpha, DZero)
    /\ visualState = [position |-> C11_PresentedZero,
                      velocity |-> C11_PresentedZero, valid |-> FALSE]

\* C12: every tick takes its snapshot, then drains, then integrates: after
\* the tick previousState is currentState as it was before the tick's first
\* command, and currentState is updateSystem of the state that all the
\* drained commands, applied in order, produced.
C12_SnapshotDrainIntegrate ==
    [][ stepsThisFrame' = stepsThisFrame + 1
          => /\ previousState' = currentState
             /\ prevAssigned'
             /\ LET afterDrain == C9_ApplyFirstToLast(currentState, drained', 1)
                IN  /\ afterDrain.position = currentState.position
                    /\ currentState' = updateSystem(afterDrain, FIXED_DT_SECONDS) ]_vars

\* C12 witness: a tick has drained commands that changed the velocity of a
\* valid state and then moved the position by the new velocity, not by the
\* one in the snapshot.
C12_Witness ==
    /\ pc = "ticks" /\ stepsThisFrame >= 1 /\ ret = << >>
    /\ drained # << >>
    /\ previousState.valid /\ currentState.valid
    /\ currentState.velocity # previousState.velocity
    /\ currentState.position = FAdd(previousState.position, currentState.velocity)
    /\ currentState.position # FAdd(previousState.position, previousState.velocity)

C14_StateChangesOnlyInTicks ==
    [][ /\ (pc' = "input" /\ DLt(owed', FIXED_DT_SECONDS))
             => stepsThisFrame' = 0
        /\ (pc # "input" /\ stepsThisFrame' = 0)
             => /\ currentState' = currentState
                /\ previousState' = previousState
                /\ (ret' = << >> => commandQueue' = commandQueue)
        /\ stepsThisFrame' # stepsThisFrame + 1
             => /\ currentState' = currentState
                /\ previousState' = previousState
        /\ ret' # << >>
             => /\ currentState' = currentState
                /\ previousState' = previousState
                /\ timeAccumulator' = timeAccumulator ]_vars

\* C14 witness: the first frame measured 6 ms, ran no tick and has reached
\* the input step with the state, the indeterminate previousState and a
\* producer's queued command untouched, the time still owed.
C14_Witness ==
    /\ pc = "input" /\ burstIndex = 0
    /\ dtMs = 6 /\ stepsThisFrame = 0
    /\ timeAccumulator = owed /\ DGt(owed, DZero)
    /\ ~ prevAssigned
    /\ currentState = SystemState(Fin(0), Fin(10), TRUE)
    /\ commandQueue # << >>

\* C15: over any sequence of frames, ticks and calls, the commands applied
\* to the state followed by the commands still queued are exactly the
\* commands accepted, in the order of their acceptance: none is applied
\* twice, none is passed over by a later one, none changes place.
C15_AppliedInAcceptanceOrder ==
    /\ acceptedLog = appliedLog \o commandQueue
    /\ Len(drained) <= Len(appliedLog)
    /\ drained = SubSeq(appliedLog, Len(appliedLog) - Len(drained) + 1, Len(appliedLog))

\* C15 witness: a producer's Stop and its deceleration, accepted with
\* commands of the burst between them, have been applied by different ticks,
\* the Stop first, while further accepted commands wait.
C15_Witness ==
    /\ commandQueue # << >>
    /\ \E i, j \in 1..Len(appliedLog) :
         /\ j > i + MAX_COMMANDS_PER_STEP
         /\ appliedLog[i] = Stop
         /\ appliedLog[j] = Accelerate(-30)
         /\ acceptedLog[i] = Stop /\ acceptedLog[j] = Accelerate(-30)

\* The simulated time plus the accumulator, exactly: ticksRun times
\* FIXED_DT_SECONDS plus timeAccumulator.
C16_SimulatedPlusOwed ==
    Carry(ticksRun * FIXED_DT_SECONDS[1] + timeAccumulator[1],
          ticksRun * FIXED_DT_SECONDS[2] + timeAccumulator[2],
          ticksRun * FIXED_DT_SECONDS[3] + timeAccumulator[3])

\* The rounding error the additions and subtractions made on the
\* accumulator so far can have left: one per frame and one per tick, each at
\* most half a unit in the last place of a double below 2^-4, i.e. 2^-58.
C16_RoundingSlack == << 0, 0, (framesRun + ticksRun) * 2 ^ (62 - 58) >>

\* x + y exactly, on values in limbs.
C16_Plus(x, y) == Carry(x[1] + y[1], x[2] + y[2], x[3] + y[3])

\* C16 (the claim as stated): the simulated time plus the accumulator never
\* exceeds the sum of the clamped dt values fed in, and equals it as long as
\* no frame has reset the accumulator at the step cap.
C16_TimeConserved ==
    /\ DGe(fedTime, C16_SimulatedPlusOwed)
    /\ capResets = 0 => C16_SimulatedPlusOwed = fedTime

\* C16 (amended): the same up to the rounding of the accumulator's double
\* arithmetic: the simulated time plus the accumulator exceeds the time fed
\* in by no more than 2^-58 s per addition or subtraction made, and falls
\* short of it by no more than that as long as no frame has reset the
\* accumulator at the step cap.
C16_TimeConservedUpToRounding ==
    /\ DGe(C16_Plus(fedTime, C16_RoundingSlack), C16_SimulatedPlusOwed)
    /\ capResets = 0
         => DGe(C16_Plus(C16_SimulatedPlusOwed, C16_RoundingSlack), fedTime)

\* C16 witness: several frames and ticks on, with no cap reset so far, the
\* simulated time plus the accumulator differs from the time fed in (by
\* rounding), time being owed.
C16_Witness ==
    /\ capResets = 0 /\ framesRun >= 2 /\ ticksRun >= 4
    /\ DGt(timeAccumulator, DZero)
    /\ C16_SimulatedPlusOwed # fedTime

\* The ticks a command at place i of the queue still needs to be removed.
C17_TicksToDrain(i) ==
    (i + MAX_COMMANDS_PER_STEP - 1) \div MAX_COMMANDS_PER_STEP

C18_SnapshotAssignedBeforeRead ==
    [][ (pc = "input" /\ pc' = "sample") => (prevAssigned /\ ticksRun >= 1) ]_vars

\* C19 (the claim as stated): the step cap never cuts off an owed tick: when
\* the tick loop of a frame ends, the ticks it ran are
\* floor((accumulator + dt) / FIXED_DT_SECONDS), the accumulator is below
\* FIXED_DT_SECONDS, and so what a cap reset discards is less than a tick.
C19_CapNeverCutsOwedTick ==
    [][ (pc = "ticks" /\ pc' = "input")
          => /\ stepsThisFrame = WholeTicks(owed)
             /\ DLt(timeAccumulator, FIXED_DT_SECONDS) ]_vars

\* C20: in every reachable state, an invalid currentState has position 0
\* and velocity 0.
C20_InvalidIsZeroed ==
    ~ currentState.valid
      => currentState.position = Fin(0) /\ currentState.velocity = Fin(0)

\* C20 witness: a state that moved away from 0 has become invalid and ticks
\* have since drained commands into it.
C20_Witness ==
    /\ ~ currentState.valid /\ ~ previousState.valid /\ prevAssigned
    /\ currentState = SystemState(Fin(0), Fin(0), FALSE)
    /\ drained # << >>
    /\ ticksRun >= 3

====
